---- MODULE Spec2Model ----
(***************************************************************************)
(* Model of the "Generate Dashboard" run of src/app1.py: the cost sheet,   *)
(* the order file, the payment workbooks (file by file, sheet by sheet),   *)
(* the aggregation, the merge with the per-order calculations, the metrics *)
(* display and the export.                                                 *)
(*                                                                         *)
(* A string is a sequence of tokens.  A token stands for a run of          *)
(* characters ("Sub", "order", " ", "_", ...); the tokens are chosen so    *)
(* that one string contains another exactly when its token sequence        *)
(* contains the other's.  A cell of a table is a record: a string cell     *)
(* S(t), a numeric cell N(i) or an empty cell NA (pandas' NaN).  Amounts   *)
(* are integers (the smallest currency unit).                              *)
(***************************************************************************)
EXTENDS Integers, Sequences, FiniteSets, TLC

VARIABLES
    licenseExpired,     \* datetime.now() > deadline
    uploaded_cost_sheet,
    uploaded_order,
    uploaded_payments,
    fallback_product_cost,
    packaging_cost,
    pc,                 \* position of the run
    fileIdx,            \* payment file being read (for pay_file in ...)
    sheetIdx,           \* sheet being read (for sheet in xls.sheet_names)
    cost_map,
    orders_df,
    order_id_col,
    order_sku_col,
    order_status_col,
    payment_frames,
    payment_summary,
    final_df,
    metrics,
    shown,              \* what has been put on the page, in order
    sheetLog            \* the sheets read so far: where, and what became of each

vars == <<licenseExpired, uploaded_cost_sheet, uploaded_order, uploaded_payments,
          fallback_product_cost, packaging_cost, pc, fileIdx, sheetIdx, cost_map,
          orders_df, order_id_col, order_sku_col, order_status_col,
          payment_frames, payment_summary, final_df, metrics, shown,
          sheetLog>>

(***************************************************************************)
(* Strings                                                                 *)
(***************************************************************************)

\* The tokens that change under str.lower(), with their lower-case form.
UpperLower ==
    { <<"Sub", "sub">>, <<"Order", "order">>, <<"No", "no">>, <<"Id", "id">>,
      <<"Final", "final">>, <<"Settlement", "settlement">>,
      <<"Amount", "amount">>, <<"Live", "live">>, <<"Status", "status">>,
      <<"SKU", "sku">>, <<"Quantity", "quantity">>, <<"Qty", "qty">>,
      <<"Cost", "cost">>, <<"Item", "item">>, <<"Size", "size">>,
      <<"Payments", "payments">>, <<"Summary", "summary">>,
      <<"Delivered", "delivered">>, <<"Return", "return">>,
      <<"Customer", "customer">>, <<"Initiated", "initiated">>,
      <<"Cancel", "cancel">>, <<"RTO", "rto">>, <<"Exchange", "exchange">>,
      <<"Un", "un">>, <<"Shirt", "shirt">>, <<"Red", "red">>,
      <<"Cap", "cap">>, <<"CAP", "cap">>, <<"Unnamed", "unnamed">> }

LowerTok(t) ==
    IF \E p \in UpperLower : p[1] = t
    THEN (CHOOSE p \in UpperLower : p[1] = t)[2]
    ELSE t

\* str.lower()
str_lower(s) == [i \in 1..Len(s) |-> LowerTok(s[i])]

\* str.replace(ch, "")
str_replace(s, ch) == SelectSeq(s, LAMBDA t : t # ch)

\* str.strip(): leading and trailing blanks go, inner ones stay
RECURSIVE str_lstrip(_)
str_lstrip(s) == IF s # <<>> /\ Head(s) = " " THEN str_lstrip(Tail(s)) ELSE s

RECURSIVE str_rstrip(_)
str_rstrip(s) ==
    IF s # <<>> /\ s[Len(s)] = " " THEN str_rstrip(SubSeq(s, 1, Len(s) - 1)) ELSE s

str_strip(s) == str_rstrip(str_lstrip(s))

\* k in s
Contains(s, k) ==
    \E i \in 0..(Len(s) - Len(k)) : SubSeq(s, i + 1, i + Len(k)) = k

\* any(k in s for k in keywords)
ContainsAny(s, keywords) == \E k \in keywords : Contains(s, k)

(***************************************************************************)
(* Cells                                                                   *)
(***************************************************************************)

S(t) == [k |-> "s", s |-> t, n |-> 0]
N(i) == [k |-> "n", s |-> <<>>, n |-> i]
NA == [k |-> "na", s |-> <<>>, n |-> 0]

\* pd.notna
notna(c) == c.k # "na"

\* The integers a numeric string of the inputs can denote.
NumRange == -9..99

\* str() of a number: of an int, or of a float that holds an integer (7.0)
NumStr(i, isFloat) == IF isFloat THEN <<ToString(i), ".0">> ELSE <<ToString(i)>>

\* str(cell) / astype(str) of a cell of a column; isFloat: the column is float64
CellStr(c, isFloat) ==
    CASE c.k = "s" -> c.s
      [] c.k = "n" -> NumStr(c.n, isFloat)
      [] OTHER -> <<"nan">>

\* pd.to_numeric(x, errors='coerce'): NA stands for NaN
to_numeric(c) ==
    CASE c.k = "n" -> c
      [] c.k = "s" ->
            IF \E i \in NumRange : c.s = <<ToString(i)>>
            THEN N(CHOOSE i \in NumRange : c.s = <<ToString(i)>>)
            ELSE NA
      [] OTHER -> NA

\* .fillna(v)
fillna(c, v) == IF c.k = "na" THEN N(v) ELSE c

(***************************************************************************)
(* Tables: [cols |-> the column names, rows |-> the rows of cells]         *)
(***************************************************************************)

None == <<>>

\* position of the first column of that name, 0 when there is none
ColIdx(df, name) ==
    IF \E j \in 1..Len(df.cols) : df.cols[j] = name
    THEN CHOOSE j \in 1..Len(df.cols) :
            /\ df.cols[j] = name
            /\ \A h \in 1..(j - 1) : df.cols[h] # name
    ELSE 0

\* pandas reads a column of numbers with an empty cell as float64
ColIsFloat(df, j) ==
    /\ \A r \in 1..Len(df.rows) : df.rows[r][j].k \in {"n", "na"}
    /\ \E r \in 1..Len(df.rows) : df.rows[r][j].k = "na"

normalize_name(c) == str_replace(str_replace(str_replace(str_lower(c), " "), "_"), ".")

normalize_columns(df) ==
    [df EXCEPT !.cols = [j \in 1..Len(df.cols) |-> normalize_name(df.cols[j])]]

find_column(df, keywords) ==
    IF \E j \in 1..Len(df.cols) : ContainsAny(df.cols[j], keywords)
    THEN df.cols[CHOOSE j \in 1..Len(df.cols) :
                    /\ ContainsAny(df.cols[j], keywords)
                    /\ \A h \in 1..(j - 1) : ~ContainsAny(df.cols[h], keywords)]
    ELSE None

(***************************************************************************)
(* Reading a file: [present, broken, grid].  grid is the sheet as stored,  *)
(* row by row; broken: the reader raises on it.                            *)
(***************************************************************************)

\* the column label pandas makes of a header cell, then .astype(str)
HeaderName(c, j) ==
    CASE c.k = "s" -> c.s
      [] c.k = "n" -> <<ToString(c.n)>>
      [] OTHER -> <<"Unnamed", ":", " ", ToString(j - 1)>>

\* pd.read_excel / pd.read_csv with row `header` (0-based) as the header
read_table(grid, header) ==
    IF Len(grid) <= header
    THEN [cols |-> <<>>, rows |-> <<>>]
    ELSE [cols |-> [j \in 1..Len(grid[header + 1]) |->
                        HeaderName(grid[header + 1][j], j)],
          rows |-> SubSeq(grid, header + 2, Len(grid))]

(***************************************************************************)
(* 1. The cost sheet                                                       *)
(***************************************************************************)

EmptyMap == [x \in {} |-> 0]

SkuKeywordsCost == { <<"sku">>, <<"style">>, <<"design">>, <<"product", "id">> }
CostKeywords == { <<"cost">>, <<"price">>, <<"rate">>, <<"amount">>, <<"purchase">> }

\* .astype(str).str.strip().str.lower() of the SKU column
CleanSku(c, isFloat) == str_lower(str_strip(CellStr(c, isFloat)))

\* pd.Series(costs, index=skus).to_dict(): the last row of a SKU wins
SeriesToDict(keys, values) ==
    [x \in {keys[i] : i \in 1..Len(keys)} |->
        values[CHOOSE i \in 1..Len(keys) :
                  /\ keys[i] = x
                  /\ \A h \in (i + 1)..Len(keys) : keys[h] # x]]

\* the cost map of an uploaded cost sheet, and the sidebar message
BuildCostMap(file) ==
    IF file.broken
    THEN [map |-> EmptyMap, msg |-> "sidebar_error_reading"]
    ELSE LET cost_df == normalize_columns(read_table(file.grid, 0))
             c_sku  == find_column(cost_df, SkuKeywordsCost)
             c_cost == find_column(cost_df, CostKeywords)
             js == ColIdx(cost_df, c_sku)
             jc == ColIdx(cost_df, c_cost)
             n == Len(cost_df.rows)
         IN IF c_sku # None /\ c_cost # None
            THEN IF js = jc
                 \* one column is both: it ends numeric, no key is a string
                 THEN [map |-> EmptyMap, msg |-> "sidebar_success"]
                 ELSE [map |-> SeriesToDict(
                                 [i \in 1..n |-> CleanSku(cost_df.rows[i][js],
                                                          ColIsFloat(cost_df, js))],
                                 [i \in 1..n |->
                                     fillna(to_numeric(cost_df.rows[i][jc]), 0).n]),
                       msg |-> "sidebar_success"]
            ELSE [map |-> EmptyMap, msg |-> "sidebar_error_columns"]

(***************************************************************************)
(* 2. The order file                                                       *)
(***************************************************************************)

\* a looser keyword list: any header with "order" passes for the order id
OrderIdKeywords_loose == { <<"sub", "order">>, <<"order", "id">>, <<"order">> }

OrderIdKeywords == { <<"sub", "order">>, <<"order", "id">> }
OrderSkuKeywords == { <<"sku">>, <<"style">>, <<"product", "id">> }
OrderStatusKeywords == { <<"order", "status">>, <<"status">> }

\* orders_df[order_id_col] = orders_df[order_id_col].astype(str)
AsTypeStr(df, name) ==
    LET j == ColIdx(df, name)
        fl == ColIsFloat(df, j)
    IN [df EXCEPT !.rows =
            [r \in 1..Len(df.rows) |->
                [df.rows[r] EXCEPT ![j] = S(CellStr(df.rows[r][j], fl))]]]

(***************************************************************************)
(* 3. One sheet of a payment workbook                                      *)
(***************************************************************************)

PayIdKeywords == { <<"sub", "order">> }
PayAmountKeywords ==
    { <<"final", "settlement">>, <<"settlement", "amount">>, <<"net", "amount">> }
PayStatusKeywords == { <<"live", "order", "status">>, <<"order", "status">> }

\* "suborder" not in str(list(temp_cols)): temp_cols is lower-cased with the
\* blanks removed; underscores and periods stay
HeaderLacksSuborder(df) ==
    ~\E j \in 1..Len(df.cols) :
        Contains(str_replace(str_lower(df.cols[j]), " "), <<"sub", "order">>)

\* the header fix is tried: the sheet is read again with its second row as header
Reread(df) == HeaderLacksSuborder(df) /\ Len(df.rows) > 2

\* the table the sheet is processed as, after the header fix
HeaderFix(sheet) ==
    LET df == read_table(sheet.grid, 0)
    IN IF Reread(df) THEN read_table(sheet.grid, 1) ELSE df

\* the rows kept of a sheet whose id and amount columns were found
KeptRows(df, p_id, p_amt, p_status) ==
    LET ji == ColIdx(df, p_id)
        ja == ColIdx(df, p_amt)
        js == ColIdx(df, p_status)
        fl == ColIsFloat(df, ji)
        kept == SelectSeq(df.rows, LAMBDA row : notna(row[ji]))
    IN [i \in 1..Len(kept) |->
            [suborderno |-> CellStr(kept[i][ji], fl),
             amount |-> kept[i][ja],
             payment_status |-> IF p_status # None THEN kept[i][js] ELSE NA]]

Outcome(kind, reread, rows, hasStatus) ==
    [kind |-> kind, reread |-> reread, rows |-> rows, hasStatus |-> hasStatus]

\* what reading one sheet does: "raise" (the rest of the workbook is left),
\* "skip" (nothing is collected) or "frame" (its rows are collected)
SheetOutcome(sheet) ==
    IF sheet.broken THEN Outcome("raise", FALSE, <<>>, FALSE)
    ELSE IF Len(read_table(sheet.grid, 0).rows) < 2
    THEN Outcome("skip", FALSE, <<>>, FALSE)
    ELSE LET reread == Reread(read_table(sheet.grid, 0))
             df == normalize_columns(HeaderFix(sheet))
             p_id == find_column(df, PayIdKeywords)
             p_amt == find_column(df, PayAmountKeywords)
             p_status == find_column(df, PayStatusKeywords)
         IN IF p_id # None /\ p_amt # None
            THEN IF p_id = p_amt \/ p_status = p_id \/ p_status = p_amt
                 \* the renamed column is gone: KeyError
                 THEN Outcome("raise", reread, <<>>, FALSE)
                 ELSE Outcome("frame", reread,
                              KeptRows(df, p_id, p_amt, p_status), p_status # None)
            ELSE Outcome("skip", reread, <<>>, FALSE)

(***************************************************************************)
(* The aggregation of the collected payment rows                           *)
(***************************************************************************)

\* pd.concat(payment_frames): the rows of the frames, in the order collected
RECURSIVE concat(_)
concat(frames) ==
    IF frames = <<>> THEN <<>> ELSE Head(frames).rows \o concat(Tail(frames))

\* pd.to_numeric(all_payments['amount'], errors='coerce').fillna(0)
CoerceAmount(c) == fillna(to_numeric(c), 0).n

RECURSIVE SumAmount(_, _)
SumAmount(rows, id) ==
    IF rows = <<>> THEN 0
    ELSE (IF Head(rows).suborderno = id THEN CoerceAmount(Head(rows).amount) ELSE 0)
         + SumAmount(Tail(rows), id)

\* the amounts assigned by order id instead of summed: the last row stays
amount_summary_overwrite(all_payments) ==
    [id \in {all_payments[i].suborderno : i \in 1..Len(all_payments)} |->
        CoerceAmount(all_payments[CHOOSE i \in 1..Len(all_payments) :
                        /\ all_payments[i].suborderno = id
                        /\ \A h \in (i + 1)..Len(all_payments) :
                              all_payments[h].suborderno # id].amount)]

\* all_payments.groupby("suborderno")["amount"].sum()
amount_summary(all_payments) ==
    [id \in {all_payments[i].suborderno : i \in 1..Len(all_payments)} |->
        SumAmount(all_payments, id)]

\* drop_duplicates with keep='first'
status_summary_first(all_payments) ==
    LET withStatus == SelectSeq(all_payments, LAMBDA r : notna(r.payment_status))
        n == Len(withStatus)
    IN [id \in {withStatus[i].suborderno : i \in 1..n} |->
            withStatus[CHOOSE i \in 1..n :
                          /\ withStatus[i].suborderno = id
                          /\ \A h \in 1..(i - 1) : withStatus[h].suborderno # id]
                .payment_status]

\* dropna(subset=['payment_status']).drop_duplicates('suborderno', keep='last')
status_summary(all_payments) ==
    LET withStatus == SelectSeq(all_payments, LAMBDA r : notna(r.payment_status))
        n == Len(withStatus)
    IN [id \in {withStatus[i].suborderno : i \in 1..n} |->
            withStatus[CHOOSE i \in 1..n :
                          /\ withStatus[i].suborderno = id
                          /\ \A h \in (i + 1)..n : withStatus[h].suborderno # id]
                .payment_status]

\* payment_summary, one entry per order id of the collected rows
Summarize(frames) ==
    IF frames # <<>>
    THEN LET all_payments == concat(frames)
             amounts == amount_summary(all_payments)
             hasStatusCol == \E i \in 1..Len(frames) : frames[i].hasStatus
             statuses == IF hasStatusCol THEN status_summary(all_payments)
                         ELSE EmptyMap
         IN [id \in DOMAIN amounts |->
                [amount |-> amounts[id],
                 payment_status |->
                    IF id \in DOMAIN statuses THEN statuses[id] ELSE NA]]
    ELSE EmptyMap

(***************************************************************************)
(* 4. Merge and calculate                                                  *)
(***************************************************************************)

\* row.get(col): the cell of the named column, NA when there is no such column
RowGet(df, row, name) ==
    IF ColIdx(df, name) = 0 THEN NA ELSE row[ColIdx(df, name)]

\* a column of cells that pandas holds as float64
IsFloatCells(cells) ==
    /\ \A c \in cells : c.k \in {"n", "na"}
    /\ \E c \in cells : c.k = "na"

\* the two tests in the other order: the order-side status first
get_final_status_order_first(payment_status, payFloat, order_status, ordFloat, status_col) ==
    IF status_col # None /\ notna(order_status)
    THEN str_lower(CellStr(order_status, ordFloat))
    ELSE IF notna(payment_status) THEN str_lower(CellStr(payment_status, payFloat))
         ELSE <<"unknown">>

get_final_status(payment_status, payFloat, order_status, ordFloat, status_col) ==
    IF notna(payment_status) THEN str_lower(CellStr(payment_status, payFloat))
    ELSE IF status_col # None /\ notna(order_status)
         THEN str_lower(CellStr(order_status, ordFloat))
         ELSE <<"unknown">>

\* the lookup on the SKU as written, neither trimmed nor case-folded
get_unit_cost_raw(sku_col, sku, skuFloat, map, fallback) ==
    IF sku_col = None THEN fallback
    ELSE LET sku_val == CellStr(sku, skuFloat)
         IN IF sku_val \in DOMAIN map THEN map[sku_val] ELSE fallback

get_unit_cost(sku_col, sku, skuFloat, map, fallback) ==
    IF sku_col = None THEN fallback
    ELSE LET sku_val == str_lower(str_strip(CellStr(sku, skuFloat)))
         IN IF sku_val \in DOMAIN map THEN map[sku_val] ELSE fallback

valid_cost_statuses ==
    { <<"delivered">>, <<"exchange">>, <<"return">>, <<"customer", " ", "return">> }

\* the cost charged once for every keyword the status contains
calculate_total_cost_per_keyword(final_status, unit_cost, quantity, hasQty) ==
    LET qty == IF hasQty THEN to_numeric(quantity) ELSE N(1)
    IN Cardinality({x \in valid_cost_statuses : Contains(final_status, x)})
       * unit_cost * (IF qty.k = "na" THEN 1 ELSE qty.n)

\* quantity: row.get('quantity', 1) of the order row, hasQty: the column exists
calculate_total_cost(final_status, unit_cost, quantity, hasQty) ==
    IF ContainsAny(final_status, valid_cost_statuses)
    THEN LET qty == IF hasQty THEN to_numeric(quantity) ELSE N(1)
         IN unit_cost * (IF qty.k = "na" THEN 1 ELSE qty.n)
    ELSE 0

\* the packaging cost charged only to the orders that are charged a product cost
Net_Profit_packaging_if_charged(amount, product_cost, packaging) ==
    amount - product_cost - (IF product_cost # 0 THEN packaging ELSE 0)

Net_Profit(amount, product_cost, packaging) == amount - product_cost - packaging

\* final_df: the order rows, each with its payment summary and the computed columns
MergeCalculate(odf, id_col, sku_col, status_col, summary, map, fallback, packaging) ==
    LET n == Len(odf.rows)
        idOf(i) == RowGet(odf, odf.rows[i], id_col).s
        payStatus(i) == IF idOf(i) \in DOMAIN summary
                        THEN summary[idOf(i)].payment_status ELSE NA
        payFloat == IsFloatCells({payStatus(i) : i \in 1..n})
        ordFloat == status_col # None /\ ColIsFloat(odf, ColIdx(odf, status_col))
        skuFloat == sku_col # None /\ ColIsFloat(odf, ColIdx(odf, sku_col))
        hasQty == ColIdx(odf, <<"quantity">>) # 0
        amountOf(i) == IF idOf(i) \in DOMAIN summary THEN summary[idOf(i)].amount ELSE 0
        statusOf(i) == get_final_status(payStatus(i), payFloat,
                                        RowGet(odf, odf.rows[i], status_col), ordFloat,
                                        status_col)
        unitOf(i) == get_unit_cost(sku_col, RowGet(odf, odf.rows[i], sku_col), skuFloat,
                                   map, fallback)
        costOf(i) == calculate_total_cost(statusOf(i), unitOf(i),
                                          RowGet(odf, odf.rows[i], <<"quantity">>), hasQty)
    IN [i \in 1..n |->
            [cells |-> odf.rows[i],
             id |-> idOf(i),
             amount |-> amountOf(i),
             payment_status |-> payStatus(i),
             final_status |-> statusOf(i),
             unit_cost |-> unitOf(i),
             Product_Cost |-> costOf(i),
             Packaging_Cost |-> packaging,
             Net_Profit |-> Net_Profit(amountOf(i), costOf(i), packaging)]]

(***************************************************************************)
(* 5. Metrics, 6. export                                                   *)
(***************************************************************************)

RECURSIVE SumField(_, _)
SumField(df, f) == IF df = <<>> THEN 0 ELSE Head(df)[f] + SumField(Tail(df), f)

\* len(final_df[final_df['final_status'].str.contains('|'.join(keywords))])
count_status_final(df, keywords) ==
    Cardinality({i \in 1..Len(df) : ContainsAny(df[i].final_status, keywords)})

NoMetrics == [computed |-> FALSE]

ComputeMetrics(df) ==
    [computed |-> TRUE,
     total_orders |-> Len(df),
     payout_settled |-> SumField(df, "amount"),
     total_product_cost |-> SumField(df, "Product_Cost"),
     total_profit |-> SumField(df, "Net_Profit"),
     delivered |-> count_status_final(df, { <<"delivered">> }),
     returned |-> count_status_final(df, { <<"return">>, <<"customer", "return">> }),
     rtos |-> count_status_final(df, { <<"rto">>, <<"un", "delivered">> }),
     cancelled |-> count_status_final(df, { <<"cancel">> })]

\* a character openpyxl refuses to write (IllegalCharacterError)
IllegalChar == "\\x01"

\* final_df.to_excel(writer) raises on a string cell with an illegal character
ExportRaises(df) ==
    \E i \in 1..Len(df) :
        \/ \E j \in 1..Len(df[i].cells) :
              \E h \in 1..Len(df[i].cells[j].s) : df[i].cells[j].s[h] = IllegalChar
        \/ \E h \in 1..Len(df[i].payment_status.s) :
              df[i].payment_status.s[h] = IllegalChar

(***************************************************************************)
(* The inputs of a run                                                     *)
(***************************************************************************)

MaxRows == 3        \* data rows of a payment sheet
MaxSheets == 3      \* sheets of the uploaded payment workbooks, together
MaxOrders == 2      \* rows of the order file

\* the sequences over a set, of length lo..hi
SeqsOf(set, lo, hi) == UNION { [1..n -> set] : n \in lo..hi }

File(grid) == [present |-> TRUE, broken |-> FALSE, grid |-> grid]
BrokenFile == [present |-> TRUE, broken |-> TRUE, grid |-> <<>>]
NoFile == [present |-> FALSE, broken |-> FALSE, grid |-> <<>>]

H_SubOrderNo == S(<<"Sub", " ", "Order", " ", "No">>)
H_Sub_Order_No == S(<<"Sub", "_", "Order", "_", "No">>)
H_Settlement == S(<<"Final", " ", "Settlement", " ", "Amount">>)
H_LiveStatus == S(<<"Live", " ", "Order", " ", "Status">>)
H_OrderStatus == S(<<"Order", " ", "Status">>)
H_Item == S(<<"Item">>)
H_Title == S(<<"Payments", " ", "Summary">>)

A1 == <<"A1">>
B2 == <<"B2">>

\* payment sheets: the header rows ...
PayHeaderGood == <<H_SubOrderNo, H_Settlement, H_LiveStatus>>
PayHeaderNoStatus == <<H_SubOrderNo, H_Settlement, H_Item>>
PayHeaderUnderscore == <<H_Sub_Order_No, H_Settlement, H_LiveStatus>>
PayHeaderNoAmount == <<H_SubOrderNo, H_Item, H_LiveStatus>>
PayHeaderTitle == <<H_Title, NA, NA>>
PayHeaderClash ==
    <<S(<<"Sub", " ", "Order", " ", "Status">>), H_Settlement, H_Item>>

\* ... the rows before the data: the header alone, or a title row above it
PayTops ==
    { <<PayHeaderGood>>, <<PayHeaderNoStatus>>, <<PayHeaderUnderscore>>,
      <<PayHeaderNoAmount>>, <<PayHeaderTitle>>, <<PayHeaderClash>>,
      <<PayHeaderTitle, PayHeaderGood>>, <<PayHeaderTitle, PayHeaderNoStatus>> }

\* ... and the data rows: order id, amount, status
PayRow1 == <<S(A1), N(3), S(<<"Delivered">>)>>
PayRow2 == <<S(A1), N(-1), NA>>
PayRow3 == <<N(7), S(<<"n/a">>), S(<<"RTO">>)>>
PayRow4 == <<NA, N(2), S(<<"Return">>)>>
PayRow5 == <<S(A1), S(<<"2">>), S(<<"Return">>)>>
PayRow6 == <<N(7), N(4), S(<<"Return">>)>>
PayRows == { PayRow1, PayRow2, PayRow3, PayRow4 }

BrokenSheet == [broken |-> TRUE, grid |-> <<>>]
Sheet(top, rows) == [broken |-> FALSE, grid |-> top \o rows]

\* every sheet of up to MaxRows data rows
AllSheets ==
    { Sheet(top, rows) : top \in PayTops, rows \in SeqsOf(PayRows, 0, MaxRows) }
    \cup { BrokenSheet }

\* the sheets the workbooks of several sheets are made of
CoreSheets ==
    { Sheet(<<PayHeaderGood>>, <<PayRow1, PayRow3>>),
      Sheet(<<PayHeaderGood>>, <<PayRow5, PayRow2, PayRow6>>),
      Sheet(<<PayHeaderNoStatus>>, <<PayRow1, PayRow6>>),
      Sheet(<<PayHeaderTitle>>, <<PayRow1, PayRow1>>),
      BrokenSheet }

\* the ways to cut a sequence of sheets into workbooks: the sheets after which
\* a workbook ends
RECURSIVE Cut(_, _)
Cut(sheets, ends) ==
    IF sheets = <<>> THEN <<>>
    ELSE LET n == CHOOSE i \in 1..Len(sheets) :
                    /\ i \in ends \/ i = Len(sheets)
                    /\ \A h \in 1..(i - 1) : h \notin ends
         IN <<SubSeq(sheets, 1, n)>>
            \o Cut(SubSeq(sheets, n + 1, Len(sheets)),
                   {e - n : e \in {x \in ends : x > n}})

\* every cut of up to MaxSheets core sheets into workbooks
BooksOf(sheets) == { Cut(sheets, ends) : ends \in SUBSET (1..(Len(sheets) - 1)) }

\* order files: header rows, and rows of order id, SKU, quantity, status
OrderHeaderFull == <<H_SubOrderNo, S(<<"SKU">>), S(<<"Quantity">>), H_OrderStatus>>
OrderHeaderPlain ==
    <<S(<<"Order", "_", "Id">>), S(<<"SKU">>), S(<<"Qty">>), S(<<"Size">>)>>
OrderHeaderNoSku == <<H_SubOrderNo, H_Item, S(<<"Quantity">>), S(<<"Status">>)>>
OrderHeaderNoId == <<H_Item, S(<<"SKU">>), S(<<"Quantity">>), H_OrderStatus>>
OrderHeaderAmount == <<H_SubOrderNo, S(<<"SKU">>), S(<<"Amount">>), H_OrderStatus>>
OrderHeaders ==
    { OrderHeaderFull, OrderHeaderPlain, OrderHeaderNoSku, OrderHeaderNoId,
      OrderHeaderAmount }

ShirtRed == <<"Shirt", "-", "Red">>
OrderRow1 == <<S(A1), S(<<" ">> \o ShirtRed \o <<" ">>), N(2), S(<<"Delivered">>)>>
OrderRow2 == <<N(7), S(<<"Cap">>), N(2), S(<<"Cancel", "led">>)>>
OrderRow3 == <<S(B2), NA, S(<<"two">>), S(<<"RTO", " ", "Un", "delivered">>)>>
OrderRow4 ==
    <<S(A1), S(<<"Cap", IllegalChar>>), N(3),
      S(<<"Customer", " ", "Return", " ", "Initiated">>)>>
OrderRow5 == <<S(<<"7">>), S(<<"shirt", "-", "red">>), NA, NA>>
OrderRows == { OrderRow1, OrderRow2, OrderRow3, OrderRow4, OrderRow5 }

AllOrderFiles ==
    { File(<<h>> \o rows) : h \in OrderHeaders, rows \in SeqsOf(OrderRows, 1, MaxOrders) }
    \cup { BrokenFile }

\* cost sheets
CostGood ==
    File(<< <<S(<<"SKU">>), S(<<"Cost">>)>>,
            <<S(ShirtRed), N(50)>>,
            <<S(<<" ", "CAP">>), S(<<"x">>)>>,
            <<S(<<"shirt", "-", "red">>), N(40)>> >>)
CostNoSku ==
    File(<< <<H_Item, S(<<"Cost">>)>>, <<S(ShirtRed), N(50)>> >>)
AllCostFiles == { NoFile, CostGood, CostNoSku, BrokenFile }

\* fallback product cost and packaging cost
Settings == { <<0, 5>>, <<20, 5>>, <<20, 1>> }

BaseOrder == File(<<OrderHeaderFull, OrderRow1, OrderRow2>>)
BaseBook == << <<Sheet(<<PayHeaderGood>>, <<PayRow1, PayRow3>>)>> >>
BaseBooks ==
    { BaseBook,
      << <<Sheet(<<PayHeaderGood>>, <<PayRow1, PayRow3>>),
           Sheet(<<PayHeaderGood>>, <<PayRow5, PayRow2, PayRow6>>)>>,
         <<Sheet(<<PayHeaderNoStatus>>, <<PayRow1, PayRow6>>)>> >>,
      << <<Sheet(<<PayHeaderTitle>>, <<PayRow1, PayRow1>>)>> >> }

\* cost sheet and settings, varied one at a time about CostGood and <<20, 5>>
CostSettings ==
    { <<c, <<20, 5>>>> : c \in AllCostFiles } \cup { <<CostGood, st>> : st \in Settings }

(***************************************************************************)
(* The run                                                                 *)
(***************************************************************************)

EmptyTable == [cols |-> <<>>, rows |-> <<>>]

\* the page as the script finds it: the uploads and the settings of the sidebar
Uploaded(order, payments, cost, setting, expired) ==
    /\ uploaded_order = order
    /\ uploaded_payments = payments
    /\ uploaded_cost_sheet = cost
    /\ fallback_product_cost = setting[1]
    /\ packaging_cost = setting[2]
    /\ licenseExpired = expired

\* the runs checked: every sheet alone, every cut of the core sheets into
\* workbooks, every order file with every workbook of BaseBooks and with every
\* cost sheet and setting, the runs with a file missing, and an expired licence
Init ==
    /\ \/ \E sh \in AllSheets :
             Uploaded(BaseOrder, << <<sh>> >>, CostGood, <<20, 5>>, FALSE)
       \/ \E sheets \in SeqsOf(CoreSheets, 1, MaxSheets) :
             \E book \in BooksOf(sheets) :
                Uploaded(BaseOrder, book, CostGood, <<20, 5>>, FALSE)
       \/ \E o \in AllOrderFiles, book \in BaseBooks :
             Uploaded(o, book, CostGood, <<20, 5>>, FALSE)
       \/ \E o \in AllOrderFiles, cs \in CostSettings :
             Uploaded(o, BaseBook, cs[1], cs[2], FALSE)
       \/ Uploaded(NoFile, << <<BrokenSheet>> >>, NoFile, <<0, 5>>, FALSE)
       \/ Uploaded(BaseOrder, <<>>, NoFile, <<0, 5>>, FALSE)
       \/ Uploaded(BaseOrder, BaseBook, CostGood, <<20, 5>>, TRUE)
    /\ pc = "idle"
    /\ fileIdx = 0
    /\ sheetIdx = 0
    /\ cost_map = EmptyMap
    /\ orders_df = EmptyTable
    /\ order_id_col = None
    /\ order_sku_col = None
    /\ order_status_col = None
    /\ payment_frames = <<>>
    /\ payment_summary = EmptyMap
    /\ final_df = <<>>
    /\ metrics = NoMetrics
    /\ shown = <<>>
    /\ sheetLog = <<>>

inputs == <<licenseExpired, uploaded_cost_sheet, uploaded_order, uploaded_payments,
            fallback_product_cost, packaging_cost>>

\* st.button("Generate Dashboard"), on a page the licence check let through
ClickGenerate ==
    /\ pc = "idle"
    /\ ~licenseExpired
    /\ IF ~uploaded_order.present \/ uploaded_payments = <<>>
       THEN /\ shown' = Append(shown, "error_upload")
            /\ pc' = "need_files"
       ELSE /\ pc' = "cost"
            /\ UNCHANGED shown
    /\ UNCHANGED <<inputs, fileIdx, sheetIdx, cost_map, orders_df, order_id_col,
                   order_sku_col, order_status_col, payment_frames,
                   payment_summary, final_df, metrics, sheetLog>>

ProcessCostSheet ==
    /\ pc = "cost"
    /\ IF uploaded_cost_sheet.present
       THEN LET built == BuildCostMap(uploaded_cost_sheet)
            IN /\ cost_map' = built.map
               /\ shown' = Append(shown, built.msg)
       ELSE UNCHANGED <<cost_map, shown>>
    /\ pc' = "orders"
    /\ UNCHANGED <<inputs, fileIdx, sheetIdx, orders_df, order_id_col,
                   order_sku_col, order_status_col, payment_frames,
                   payment_summary, final_df, metrics, sheetLog>>

ProcessOrderFile ==
    /\ pc = "orders"
    /\ IF uploaded_order.broken
       THEN \* the reader raises: the top-level except
            /\ shown' = Append(shown, "error_top")
            /\ pc' = "error"
            /\ UNCHANGED <<fileIdx, sheetIdx, orders_df, order_id_col,
                           order_sku_col, order_status_col>>
       ELSE LET df == normalize_columns(read_table(uploaded_order.grid, 0))
                id_col == find_column(df, OrderIdKeywords)
            IN IF id_col = None
               THEN \* st.error, st.stop
                    /\ shown' = Append(shown, "error_order_id")
                    /\ pc' = "stopped"
                    /\ orders_df' = df
                    /\ UNCHANGED <<fileIdx, sheetIdx, order_id_col, order_sku_col,
                                   order_status_col>>
               ELSE /\ orders_df' = AsTypeStr(df, id_col)
                    /\ order_id_col' = id_col
                    /\ order_sku_col' = find_column(df, OrderSkuKeywords)
                    /\ order_status_col' = find_column(df, OrderStatusKeywords)
                    /\ pc' = "payments"
                    /\ fileIdx' = 1
                    /\ sheetIdx' = 1
                    /\ UNCHANGED shown
    /\ UNCHANGED <<inputs, cost_map, payment_frames, payment_summary, final_df,
                   metrics, sheetLog>>

\* one pass of the sheet loop; a raise leaves the workbook (except: pass)
ReadSheet ==
    /\ pc = "payments"
    /\ LET book == uploaded_payments[fileIdx]
           out == SheetOutcome(book[sheetIdx])
           leave == out.kind = "raise" \/ sheetIdx = Len(book)
       IN /\ sheetLog' = Append(sheetLog, [src |-> <<fileIdx, sheetIdx>>,
                                           kind |-> out.kind,
                                           reread |-> out.reread])
          /\ payment_frames' =
                IF out.kind = "frame"
                THEN Append(payment_frames,
                            [rows |-> out.rows, hasStatus |-> out.hasStatus])
                ELSE payment_frames
          /\ fileIdx' = IF leave THEN fileIdx + 1 ELSE fileIdx
          /\ sheetIdx' = IF leave THEN 1 ELSE sheetIdx + 1
          /\ pc' = IF leave /\ fileIdx = Len(uploaded_payments)
                   THEN "aggregate" ELSE "payments"
    /\ UNCHANGED <<inputs, cost_map, orders_df, order_id_col, order_sku_col,
                   order_status_col, payment_summary, final_df, metrics, shown>>

Aggregate ==
    /\ pc = "aggregate"
    /\ payment_summary' = Summarize(payment_frames)
    /\ pc' = "merge"
    /\ UNCHANGED <<inputs, fileIdx, sheetIdx, cost_map, orders_df, order_id_col,
                   order_sku_col, order_status_col, payment_frames, final_df,
                   metrics, shown, sheetLog>>

Merge ==
    /\ pc = "merge"
    /\ IF ColIdx(orders_df, <<"amount">>) # 0
       THEN \* both tables have an 'amount': final_df["amount"] is a KeyError
            /\ shown' = Append(shown, "error_top")
            /\ pc' = "error"
            /\ UNCHANGED final_df
       ELSE /\ final_df' = MergeCalculate(orders_df, order_id_col, order_sku_col,
                                          order_status_col, payment_summary,
                                          cost_map, fallback_product_cost,
                                          packaging_cost)
            /\ pc' = "metrics"
            /\ UNCHANGED shown
    /\ UNCHANGED <<inputs, fileIdx, sheetIdx, cost_map, orders_df, order_id_col,
                   order_sku_col, order_status_col, payment_frames,
                   payment_summary, metrics, sheetLog>>

ShowMetrics ==
    /\ pc = "metrics"
    /\ metrics' = ComputeMetrics(final_df)
    /\ shown' = Append(shown, "metrics")
    /\ pc' = "export"
    /\ UNCHANGED <<inputs, fileIdx, sheetIdx, cost_map, orders_df, order_id_col,
                   order_sku_col, order_status_col, payment_frames,
                   payment_summary, final_df, sheetLog>>

Export ==
    /\ pc = "export"
    /\ IF ExportRaises(final_df)
       THEN /\ shown' = shown \o <<"table", "error_top">>
            /\ pc' = "error"
       ELSE /\ shown' = shown \o <<"table", "download">>
            /\ pc' = "done"
    /\ UNCHANGED <<inputs, fileIdx, sheetIdx, cost_map, orders_df, order_id_col,
                   order_sku_col, order_status_col, payment_frames,
                   payment_summary, final_df, metrics, sheetLog>>

Next ==
    \/ ClickGenerate
    \/ ProcessCostSheet
    \/ ProcessOrderFile
    \/ ReadSheet
    \/ Aggregate
    \/ Merge
    \/ ShowMetrics
    \/ Export

Spec == Init /\ [][Next]_vars

(***************************************************************************)
(* Properties                                                              *)
(***************************************************************************)

\* the payment rows collected so far, in the order collected
CollectedRows == concat(payment_frames)

\* the sheet loop is over and the summary has been made
Aggregated == fileIdx > Len(uploaded_payments) /\ fileIdx > 0 /\ pc # "aggregate"

\* an amount as a number, a non-numeric one as 0
AmountValue(c) == IF to_numeric(c).k = "n" THEN to_numeric(c).n ELSE 0

\* the sum of the amounts of the first n collected rows that carry the order id
RECURSIVE SumOfRows(_, _)
SumOfRows(id, n) ==
    IF n = 0 THEN 0
    ELSE SumOfRows(id, n - 1)
         + (IF CollectedRows[n].suborderno = id
            THEN AmountValue(CollectedRows[n].amount) ELSE 0)

RowsOfId(id) == {n \in 1..Len(CollectedRows) : CollectedRows[n].suborderno = id}

\* C1: after the aggregation and the merge, the settlement amount of every
\* order record is the sum of the coerced amounts (non-numeric as 0) of all
\* collected payment rows with its order id, over all files and sheets, and 0
\* when there is none: rows are summed, never overwritten.
C1_AmountIsSumOfRows ==
    \A i \in 1..Len(final_df) :
        final_df[i].amount = SumOfRows(final_df[i].id, Len(CollectedRows))

\* an order paid in rows of two sheets, beside an order without a payment row
C1_Witness ==
    /\ pc = "done"
    /\ Len(payment_frames) >= 2
    /\ \E i \in 1..Len(final_df) :
          /\ \E a, b \in RowsOfId(final_df[i].id) :
                /\ a <= Len(payment_frames[1].rows)
                /\ b > Len(payment_frames[1].rows)
                /\ AmountValue(CollectedRows[b].amount) # 0
                /\ AmountValue(CollectedRows[a].amount) # 0
          /\ final_df[i].amount # 0
    /\ \E i \in 1..Len(final_df) :
          RowsOfId(final_df[i].id) = {} /\ final_df[i].amount = 0

\* the sheets that would be collected when read on their own
ValidSheets ==
    { fs \in UNION { {<<f, s>> : s \in 1..Len(uploaded_payments[f])} :
                        f \in 1..Len(uploaded_payments) } :
        SheetOutcome(uploaded_payments[fs[1]][fs[2]]).kind = "frame" }

\* C2: a sheet that fails never keeps a valid sheet from being aggregated:
\* once the workbooks are read, every valid sheet, also one after a failing
\* sheet of the same workbook, has had its rows collected.
C2_ValidSheetsCollected ==
    Aggregated =>
        \A fs \in ValidSheets :
            \E e \in 1..Len(sheetLog) :
                sheetLog[e].src = fs /\ sheetLog[e].kind = "frame"

\* the payment-side status of an order id, NA when there is none
PaySideStatus(id) ==
    IF id \in DOMAIN payment_summary THEN payment_summary[id].payment_status ELSE NA

\* the order-side status of the i-th order, NA without a status column
OrderSideStatus(i) ==
    IF order_status_col = None THEN NA
    ELSE orders_df.rows[i][ColIdx(orders_df, order_status_col)]

\* C3: the final status of every order is the case-folded payment-side status
\* when there is one for its id, else the case-folded order-side status when
\* the order table has a status column and the order's value is not null, else
\* "unknown"; the payment side wins, and no final status is null.
C3_StatusPrecedence ==
    \A i \in 1..Len(final_df) :
        /\ final_df[i].final_status =
              IF PaySideStatus(final_df[i].id).k # "na"
              THEN str_lower(PaySideStatus(final_df[i].id).s)
              ELSE IF OrderSideStatus(i).k # "na"
                   THEN str_lower(OrderSideStatus(i).s)
                   ELSE <<"unknown">>
        /\ final_df[i].final_status # <<>>

\* both sides give a status, they differ, and the payment side is taken;
\* another order has only the order-side status and takes that
C3_Witness ==
    /\ pc = "done"
    /\ \E i \in 1..Len(final_df) :
          /\ PaySideStatus(final_df[i].id).k = "s"
          /\ OrderSideStatus(i).k = "s"
          /\ str_lower(OrderSideStatus(i).s) # str_lower(PaySideStatus(final_df[i].id).s)
          /\ final_df[i].final_status = str_lower(PaySideStatus(final_df[i].id).s)
    /\ \E i \in 1..Len(final_df) :
          /\ PaySideStatus(final_df[i].id).k = "na"
          /\ OrderSideStatus(i).k = "s"
          /\ final_df[i].final_status = str_lower(OrderSideStatus(i).s)

\* the quantity of the i-th order: its 'quantity' cell as a number, else 1
QuantityOrOne(i) ==
    LET q == RowGet(orders_df, orders_df.rows[i], <<"quantity">>)
    IN IF to_numeric(q).k = "n" THEN to_numeric(q).n ELSE 1

CostEligible(status) ==
    \/ Contains(status, <<"delivered">>)
    \/ Contains(status, <<"exchange">>)
    \/ Contains(status, <<"return">>)
    \/ Contains(status, <<"customer", " ", "return">>)

\* C4: the product cost of every order is unit cost times quantity (1 when the
\* quantity is missing or unparseable) if the final status contains one of
\* "delivered", "exchange", "return", "customer return", and 0 otherwise; a
\* status matching several keywords is charged once.
C4_ProductCostOnce ==
    \A i \in 1..Len(final_df) :
        final_df[i].Product_Cost =
            IF CostEligible(final_df[i].final_status)
            THEN final_df[i].unit_cost * QuantityOrOne(i)
            ELSE 0

\* "customer return initiated" is charged unit cost times quantity, once, beside
\* an eligible order of unparseable quantity charged one unit cost
C4_Witness ==
    /\ \E i \in 1..Len(final_df) :
          /\ final_df[i].final_status =
                <<"customer", " ", "return", " ", "initiated">>
          /\ final_df[i].unit_cost > 0
          /\ QuantityOrOne(i) > 1
          /\ final_df[i].Product_Cost = final_df[i].unit_cost * QuantityOrOne(i)
    /\ \E i \in 1..Len(final_df) :
          /\ RowGet(orders_df, orders_df.rows[i], <<"quantity">>).k = "s"
          /\ CostEligible(final_df[i].final_status)
          /\ final_df[i].unit_cost > 0
          /\ final_df[i].Product_Cost = final_df[i].unit_cost

\* the normalized SKU of the i-th order: trimmed, case-folded
NormalizedSku(i) ==
    LET j == ColIdx(orders_df, order_sku_col)
    IN str_lower(str_strip(CellStr(orders_df.rows[i][j], ColIsFloat(orders_df, j))))

\* the headers of the uploaded cost sheet, normalized
CostHeaders ==
    IF uploaded_cost_sheet.grid = <<>> THEN {}
    ELSE { normalize_name(HeaderName(uploaded_cost_sheet.grid[1][j], j)) :
              j \in 1..Len(uploaded_cost_sheet.grid[1]) }

\* no cost table, or one whose SKU or cost column is not resolved
NoUsableCostTable ==
    \/ ~uploaded_cost_sheet.present
    \/ ~\E h \in CostHeaders : ContainsAny(h, SkuKeywordsCost)
    \/ ~\E h \in CostHeaders : ContainsAny(h, CostKeywords)

\* C5: the unit cost of every order is the cost-map entry of its normalized SKU
\* when the order table has a SKU column and the SKU is a key of the map, and
\* the fallback product cost in every other case (no SKU column, SKU not in the
\* map, no cost table, cost table with an unresolved column).
C5_UnitCostLookup ==
    \A i \in 1..Len(final_df) :
        /\ final_df[i].unit_cost =
              IF order_sku_col # None /\ NormalizedSku(i) \in DOMAIN cost_map
              THEN cost_map[NormalizedSku(i)]
              ELSE fallback_product_cost
        /\ NoUsableCostTable => final_df[i].unit_cost = fallback_product_cost

\* a SKU written " Shirt-Red " takes the cost of "shirt-red", another order of
\* the same run has no entry and takes the fallback
C5_Witness ==
    /\ \E i \in 1..Len(final_df) :
          /\ order_sku_col # None
          /\ NormalizedSku(i) \in DOMAIN cost_map
          /\ NormalizedSku(i) #
                CellStr(orders_df.rows[i][ColIdx(orders_df, order_sku_col)], FALSE)
          /\ final_df[i].unit_cost = cost_map[NormalizedSku(i)]
          /\ final_df[i].unit_cost # fallback_product_cost
    /\ \E i \in 1..Len(final_df) :
          /\ NormalizedSku(i) \notin DOMAIN cost_map
          /\ final_df[i].unit_cost = fallback_product_cost

\* C6: every reconciled record has net profit = settlement amount - product
\* cost - packaging cost, the packaging cost being the configured constant for
\* every order whatever its status; the result may be negative.
C6_NetProfit ==
    \A i \in 1..Len(final_df) :
        /\ final_df[i].Packaging_Cost = packaging_cost
        /\ final_df[i].Net_Profit =
              final_df[i].amount - final_df[i].Product_Cost - packaging_cost

\* an order with no payment and an ineligible status: minus the packaging cost
C6_Witness ==
    \E i \in 1..Len(final_df) :
        /\ RowsOfId(final_df[i].id) = {}
        /\ ~CostEligible(final_df[i].final_status)
        /\ final_df[i].Net_Profit = -packaging_cost
        /\ final_df[i].Net_Profit < 0

\* no header of the uploaded order table resolves to an order-id column
NoOrderIdColumn ==
    /\ uploaded_order.present
    /\ ~uploaded_order.broken
    /\ \A j \in 1..Len(uploaded_order.grid[1]) :
          LET h == normalize_name(HeaderName(uploaded_order.grid[1][j], j))
          IN ~Contains(h, <<"sub", "order">>) /\ ~Contains(h, <<"order", "id">>)

\* C7: if no header of the order table resolves to an order-id column, the run
\* is aborted: no payment file is processed, no reconciled table and no metrics
\* are produced.
C7_AbortWithoutOrderId ==
    NoOrderIdColumn =>
        /\ pc \in {"idle", "need_files", "cost", "orders", "stopped"}
        /\ fileIdx = 0
        /\ sheetLog = <<>>
        /\ payment_frames = <<>>
        /\ final_df = <<>>
        /\ ~metrics.computed
        /\ \A k \in 1..Len(shown) : shown[k] \notin {"metrics", "table", "download"}

\* the run of an order table without an order-id column, stopped with its
\* payment workbooks unread
C7_Witness ==
    /\ NoOrderIdColumn
    /\ uploaded_payments # <<>>
    /\ pc = "stopped"
    /\ shown[Len(shown)] = "error_order_id"

\* C8: a run either completes and hands over the full result, or surfaces one
\* top-level error with nothing of the result emitted: no part of the output
\* (the metrics, say) is emitted before a failure reported as the top-level
\* error.
C8_NoPartialOutput ==
    /\ pc = "error" =>
          \A k \in 1..Len(shown) : shown[k] \notin {"metrics", "table", "download"}
    /\ pc = "done" =>
          /\ \E k \in 1..Len(shown) : shown[k] = "metrics"
          /\ \E k \in 1..Len(shown) : shown[k] = "table"

\* the first-read table of the sheet of a log entry
LoggedTable(e) ==
    read_table(uploaded_payments[sheetLog[e].src[1]][sheetLog[e].src[2]].grid, 0)

\* C9: a payment sheet of at least 2 data rows whose normalized header names
\* (case-folded; blanks, underscores and periods removed) contain the order-id
\* token "suborder" is not read again with its second row as header: it is
\* processed with its original header.
C9_OriginalHeaderKept ==
    \A e \in 1..Len(sheetLog) :
        ( /\ ~uploaded_payments[sheetLog[e].src[1]][sheetLog[e].src[2]].broken
          /\ Len(LoggedTable(e).rows) >= 2
          /\ \E j \in 1..Len(LoggedTable(e).cols) :
                Contains(normalize_name(LoggedTable(e).cols[j]), <<"sub", "order">>) )
        => ~sheetLog[e].reread

\* the last non-null status among the first n collected rows of an order id
RECURSIVE LastStatus(_, _)
LastStatus(id, n) ==
    IF n = 0 THEN NA
    ELSE IF CollectedRows[n].suborderno = id /\ CollectedRows[n].payment_status.k # "na"
         THEN CollectedRows[n].payment_status
         ELSE LastStatus(id, n - 1)

\* the rows of the sheets collected and their order: files in upload order,
\* sheets in file order, rows in sheet order
RECURSIVE RowsInLogOrder(_)
RowsInLogOrder(n) ==
    IF n = 0 THEN <<>>
    ELSE RowsInLogOrder(n - 1)
         \o (IF sheetLog[n].kind = "frame"
             THEN SheetOutcome(
                    uploaded_payments[sheetLog[n].src[1]][sheetLog[n].src[2]]).rows
             ELSE <<>>)

LogInOrder ==
    \A a, b \in 1..Len(sheetLog) :
        a < b =>
            \/ sheetLog[a].src[1] < sheetLog[b].src[1]
            \/ /\ sheetLog[a].src[1] = sheetLog[b].src[1]
               /\ sheetLog[a].src[2] < sheetLog[b].src[2]

\* C10: the payment-side status of an order id is the last non-null status
\* among the collected payment rows of that id in processing order; a later
\* null status erases nothing, and an id without any non-null status has a
\* null payment status and keeps its summed amount.
C10_LastNonNullStatus ==
    /\ LogInOrder
    /\ CollectedRows = RowsInLogOrder(Len(sheetLog))
    /\ Aggregated =>
          /\ \A n \in 1..Len(CollectedRows) :
                CollectedRows[n].suborderno \in DOMAIN payment_summary
          /\ \A id \in DOMAIN payment_summary :
                /\ payment_summary[id].payment_status =
                      LastStatus(id, Len(CollectedRows))
                /\ payment_summary[id].amount = SumOfRows(id, Len(CollectedRows))

\* an id with two different statuses and then a null one keeps the second
C10_Witness ==
    /\ Aggregated
    /\ \E id \in DOMAIN payment_summary :
          \E a, b, c \in RowsOfId(id) :
             /\ a < b /\ b < c
             /\ CollectedRows[a].payment_status.k = "s"
             /\ CollectedRows[b].payment_status.k = "s"
             /\ CollectedRows[a].payment_status # CollectedRows[b].payment_status
             /\ \A n \in RowsOfId(id) : n > b => CollectedRows[n].payment_status.k = "na"
             /\ payment_summary[id].payment_status = CollectedRows[b].payment_status

\* an id whose rows all have a null status: null payment status, amount kept
C10_NullWitness ==
    /\ Aggregated
    /\ \E id \in DOMAIN payment_summary :
          /\ \A n \in RowsOfId(id) : CollectedRows[n].payment_status.k = "na"
          /\ payment_summary[id].payment_status = NA
          /\ payment_summary[id].amount # 0
    /\ \E id \in DOMAIN payment_summary : payment_summary[id].payment_status # NA

====
